---- MODULE Spec2Model ----
(***************************************************************************)
(* sdf trace <command>  (src/main.go, traceCmd)                            *)
(*                                                                         *)
(* traceCmd launches a program under strace, reads strace's stderr one     *)
(* line at a time, and prints the $HOME-relative part of every quoted path *)
(* that starts with $HOME.                                                 *)
(*                                                                         *)
(* Strings are sequences of one-character strings, so that strings.Split,  *)
(* strings.HasPrefix, len() and slicing are computed, not assumed.         *)
(***************************************************************************)
EXTENDS Naturals, Sequences, FiniteSets, TLC

VARIABLES
    pc,        \* position of traceCmd
    straceFound, \* whether exec.LookPath("strace") succeeds
    binFound,  \* whether exec.LookPath(inCmd[0]) succeeds
    userPath,  \* package variable userPath = os.Getenv("HOME")
    straceCmd, \* the strace child process
    straceOut, \* bytes written to the child's stderr and not yet read
    nwritten,  \* number of writes the child has made
    nerrs,     \* number of failed reads so far
    line,      \* local `line` of the read loop
    err,       \* local `err` of the read loop
    consumed,  \* the lines handed to the loop body (lines 139-147), in order
    stdout     \* the lines printed with fmt.Println, in order

vars == <<pc, straceFound, binFound, userPath, straceCmd, straceOut, nwritten, nerrs, line, err, consumed, stdout>>

---------------------------------------------------------------------------
(* Bounds *)

\* the child makes at most this many line writes
MaxLines == 2
\* at most this many reads of a started child fail with a non-EOF error
MaxReadErrs == 1

---------------------------------------------------------------------------
(* Characters and strings *)

Quote == "\""
NL == "\n"
Sep == "/"

\* $HOME as the environment gives it: unset (os.Getenv returns ""), or a directory
Homes == {<<>>, <<Sep, "h">>}

\* what may follow the first component of a reported path
Suffixes == { <<>>, <<Sep>>, <<"h">>, <<Sep, "h">>, <<"h", Sep>> }

\* the paths strace may report: relative or absolute, inside or outside /h
Paths == {pre \o suf : pre \in Homes, suf \in Suffixes} \cup {<<Sep, "e", Sep, "h">>}

\* openat(AT_FDCWD, "<path>", ...) = 3
OpenatLine(p) == <<"o", Quote>> \o p \o <<Quote, ")", NL>>

\* a line with two quoted tokens
TwoTokenLine == <<Quote, Sep, "h", Sep, "h", Quote, Quote, Sep, "h", Sep, Sep, Quote, NL>>

\* lines with fewer than three quote-delimited fragments
MalformedLines ==
    { <<NL>>,
      <<"+", NL>>,
      <<"o", Quote, Sep, "h", Sep, "h", NL>> }

Lines == {OpenatLine(p) : p \in Paths} \cup {TwoTokenLine} \cup MalformedLines

\* what the child may leave unterminated when it closes its stderr
Tails == { <<>>, <<"o", Quote, Sep, "h", Sep, "h", Quote>>, <<"+">> }

MsgNoStrace == <<"Strace not found. Check your $PATH or install it.">>
MsgNoBinary == <<"Binary not executable or doesn't exist. Cannot continue.">>

---------------------------------------------------------------------------
(* Library functions, as the code uses them *)

RECURSIVE IndexOf(_, _, _)
\* the first position >= i of s holding c, or 0
IndexOf(s, c, i) ==
    IF i > Len(s) THEN 0
    ELSE IF s[i] = c THEN i
    ELSE IndexOf(s, c, i + 1)

RECURSIVE Split(_, _)
\* strings.Split(s, sep) for a one-character sep: n separators give n+1 fragments
Split(s, sep) ==
    LET i == IndexOf(s, sep, 1)
    IN  IF i = 0 THEN <<s>>
        ELSE <<SubSeq(s, 1, i - 1)>> \o Split(SubSeq(s, i + 1, Len(s)), sep)

Contains(s, substr) ==
    \E i \in 1..(Len(s) + 1) :
        /\ i + Len(substr) - 1 <= Len(s)
        /\ SubSeq(s, i, i + Len(substr) - 1) = substr
\* strings.HasPrefix(s, prefix)
HasPrefix(s, prefix) ==
    /\ Len(s) >= Len(prefix)
    /\ SubSeq(s, 1, Len(prefix)) = prefix

\* the slice s[from:] with a 0-based `from`
SliceFrom(s, from) == SubSeq(s, from + 1, Len(s))

---------------------------------------------------------------------------
(* The loop body, lines 139-147 *)

ValidPathLoose(temp) == Len(temp) > 1
\* line 140: len(temp) > 2
ValidPath(temp) == Len(temp) > 2

\* line 142: len(temp[1]) == uplen
ViewingHome(path, uplen) == Len(path) = uplen

RemoveHomeKeepSep(path, uplen) == SliceFrom(path, uplen)
\* line 145: temp[1][uplen+1:]
RemoveHome(path, uplen) == SliceFrom(path, uplen + 1)

\* what one pass of the loop body prints for `l`: no line, or one line
Emit(l, home) ==
    LET temp == Split(l, Quote)
        uplen == Len(home)
    IN  IF ValidPath(temp)
        THEN IF HasPrefix(temp[2], home)
             THEN IF ViewingHome(temp[2], uplen)
                  THEN <<>>
                  ELSE <<RemoveHome(temp[2], uplen)>>
             ELSE <<>>
        ELSE <<>>

PrintlnOnce(out, ls) == out \o SelectSeq(ls, LAMBDA s : \A i \in 1..Len(out) : out[i] # s)
\* fmt.Println of each line of ls
Println(out, ls) == out \o ls

BreakOnAnyError(e) == e # "nil"
\* line 136: err == io.EOF
BreakOn(e) == e = "EOF"

ContinueAfterFailedLookup == "pipe"
\* lines 116 and 121: return
AfterFailedLookup == "done"

---------------------------------------------------------------------------
(* State machine *)

Init ==
    /\ pc = "lookStrace"
    /\ straceFound \in BOOLEAN
    /\ binFound \in BOOLEAN
    /\ userPath \in Homes
    /\ straceCmd = "none"
    /\ straceOut = <<>>
    /\ nwritten = 0
    /\ nerrs = 0
    /\ line = <<>>
    /\ err = "nil"
    /\ consumed = <<>>
    /\ stdout = <<>>

\* lines 114-117: exec.LookPath("strace")
LookStrace ==
    /\ pc = "lookStrace"
    /\ IF straceFound
        THEN pc' = "lookBin" /\ stdout' = stdout
        ELSE pc' = AfterFailedLookup /\ stdout' = Append(stdout, MsgNoStrace)
    /\ UNCHANGED <<straceFound, binFound, userPath, straceCmd, straceOut, nwritten, nerrs, line, err, consumed>>

\* lines 119-122: exec.LookPath(inCmd[0])
LookBin ==
    /\ pc = "lookBin"
    /\ IF binFound
        THEN pc' = "pipe" /\ stdout' = stdout
        ELSE pc' = AfterFailedLookup /\ stdout' = Append(stdout, MsgNoBinary)
    /\ UNCHANGED <<straceFound, binFound, userPath, straceCmd, straceOut, nwritten, nerrs, line, err, consumed>>

\* lines 123-131: straceCmd.StderrPipe(); a failure panics
StderrPipe ==
    /\ pc = "pipe"
    /\ \E ok \in BOOLEAN : pc' = IF ok THEN "start" ELSE "panic"
    /\ UNCHANGED <<straceFound, binFound, userPath, straceCmd, straceOut, nwritten, nerrs, line, err, consumed, stdout>>

\* line 132: straceCmd.Start(); its error is dropped. A failed Start closes
\* both ends of the pipe and leaves no child.
Start ==
    /\ pc = "start"
    /\ \E ok \in BOOLEAN : straceCmd' = IF ok THEN "running" ELSE "failed"
    /\ pc' = "read"
    /\ UNCHANGED <<straceFound, binFound, userPath, straceOut, nwritten, nerrs, line, err, consumed, stdout>>

\* the child writes one event line to its stderr
ChildWrite ==
    /\ straceCmd = "running"
    /\ nwritten < MaxLines
    /\ \E l \in Lines : straceOut' = straceOut \o l
    /\ nwritten' = nwritten + 1
    /\ UNCHANGED <<pc, straceFound, binFound, userPath, straceCmd, nerrs, line, err, consumed, stdout>>

\* the child exits, closing its stderr, perhaps after an unterminated last write
ChildExit ==
    /\ straceCmd = "running"
    /\ \E t \in Tails : straceOut' = straceOut \o t
    /\ straceCmd' = "exited"
    /\ UNCHANGED <<pc, straceFound, binFound, userPath, nwritten, nerrs, line, err, consumed, stdout>>

\* lines 136-147 for the result (l, e) of scanner.ReadString('\n')
Iterate(l, e) ==
    /\ line' = l
    /\ err' = e
    /\ IF BreakOn(e)
       THEN /\ pc' = "wait"
            /\ UNCHANGED <<consumed, stdout>>
       ELSE /\ pc' = "read"
            /\ consumed' = Append(consumed, l)
            /\ stdout' = Println(stdout, Emit(l, userPath))

\* line 135: a whole line is buffered
ReadLine ==
    /\ pc = "read"
    /\ straceCmd \in {"running", "exited"}
    /\ IndexOf(straceOut, NL, 1) > 0
    /\ LET i == IndexOf(straceOut, NL, 1)
       IN  /\ straceOut' = SubSeq(straceOut, i + 1, Len(straceOut))
           /\ Iterate(SubSeq(straceOut, 1, i), "nil")
    /\ UNCHANGED <<straceFound, binFound, userPath, straceCmd, nwritten, nerrs>>

\* line 135: the stream ends: what is left comes back with io.EOF
ReadEOF ==
    /\ pc = "read"
    /\ straceCmd = "exited"
    /\ IndexOf(straceOut, NL, 1) = 0
    /\ straceOut' = <<>>
    /\ Iterate(straceOut, "EOF")
    /\ UNCHANGED <<straceFound, binFound, userPath, straceCmd, nwritten, nerrs>>

\* line 135: the read of the pipe fails: what is buffered comes back with the error
ReadErr ==
    /\ pc = "read"
    /\ straceCmd \in {"running", "exited"}
    /\ IndexOf(straceOut, NL, 1) = 0
    /\ nerrs < MaxReadErrs
    /\ nerrs' = nerrs + 1
    /\ straceOut' = <<>>
    /\ Iterate(straceOut, "ERR")
    /\ UNCHANGED <<straceFound, binFound, userPath, straceCmd, nwritten>>

\* line 135 after a failed Start: the pipe is closed, every read fails, without
\* end (the passes are counted up to MaxReadErrs + 1 to keep `consumed` finite)
ReadClosed ==
    /\ pc = "read"
    /\ straceCmd = "failed"
    /\ nerrs < MaxReadErrs + 1
    /\ nerrs' = nerrs + 1
    /\ Iterate(<<>>, "ERR")
    /\ UNCHANGED <<straceFound, binFound, userPath, straceCmd, straceOut, nwritten>>

\* line 149: straceCmd.Wait()
Wait ==
    /\ pc = "wait"
    /\ straceCmd = "exited"
    /\ straceCmd' = "reaped"
    /\ pc' = "done"
    /\ UNCHANGED <<straceFound, binFound, userPath, straceOut, nwritten, nerrs, line, err, consumed, stdout>>

Next ==
    \/ LookStrace
    \/ LookBin
    \/ StderrPipe
    \/ Start
    \/ ChildWrite
    \/ ChildExit
    \/ ReadLine
    \/ ReadEOF
    \/ ReadErr
    \/ ReadClosed
    \/ Wait

Spec == Init /\ [][Next]_vars

---------------------------------------------------------------------------
(* Vocabulary of the properties *)

Home == <<Sep, "h">>

\* the invocation got past both lookups
Launched == straceFound /\ binFound

\* the step is one pass of the loop body, over line'
BodyPass == consumed' # consumed

\* the pass printed something
Printed == BodyPass /\ stdout' # stdout

\* l has at least three quote-delimited fragments
HasQuotedPath(l) == Len(Split(l, Quote)) >= 3

\* the first quoted token of l
Extracted(l) == Split(l, Quote)[2]

Absolute(p) == Len(p) > 0 /\ p[1] = Sep

StartsWith(p, home) == Len(p) >= Len(home) /\ \A i \in 1..Len(home) : p[i] = home[i]

\* home, then a separator, then something
TruePathPrefix(p, home) == StartsWith(p, home) /\ Len(p) > Len(home) /\ p[Len(home) + 1] = Sep

\* p without home and the one character after it
HomeRelative(p, home) == [i \in 1..(Len(p) - Len(home) - 1) |-> p[i + Len(home) + 1]]

\* a line the loop prints a path for: a quoted path that starts with home and is longer
Qualifying(l, home) ==
    /\ HasQuotedPath(l)
    /\ StartsWith(Extracted(l), home)
    /\ Len(Extracted(l)) > Len(home)

RECURSIVE ExpectedOut(_, _)
\* the home-relative paths of the qualifying lines of ls, in order, repeats kept
ExpectedOut(ls, home) ==
    IF ls = <<>> THEN <<>>
    ELSE (IF Qualifying(Head(ls), home)
          THEN <<HomeRelative(Extracted(Head(ls)), home)>>
          ELSE <<>>) \o ExpectedOut(Tail(ls), home)

Last(q) == q[Len(q)]

---------------------------------------------------------------------------
(* Claims *)

\* C1: when the strace lookup or the lookup of inCmd[0] fails, no child is ever
\* started, traceCmd is either still at the lookups with nothing printed or has
\* returned with exactly the one message line of the failed lookup printed, and
\* no path line is printed.
C1_FailedLookupOnlyReports ==
    ~Launched =>
        /\ straceCmd = "none"
        /\ straceOut = <<>>
        /\ consumed = <<>>
        /\ \/ pc = "lookStrace" /\ stdout = <<>>
           \/ pc = "lookBin" /\ straceFound /\ stdout = <<>>
           \/ pc = "done" /\ stdout = <<IF straceFound THEN MsgNoBinary ELSE MsgNoStrace>>

C1_Witness ==
    straceFound /\ ~binFound /\ pc = "done" /\ stdout = <<MsgNoBinary>> /\ straceCmd = "none"

\* C2: the printed sequence is exactly the home-relative paths of the qualifying
\* lines read so far, in the order read, a path read k times being printed k times.
C2_OutputIsOrderedMapOfLines ==
    Launched => stdout = ExpectedOut(consumed, userPath)

C2_Witness ==
    /\ pc = "done"
    /\ userPath = Home
    /\ consumed = <<OpenatLine(Home \o <<Sep, "h">>), OpenatLine(Home \o <<Sep, "h">>)>>
    /\ stdout = << <<"h">>, <<"h">> >>

C4_NoOutputWithoutTruePrefix ==
    [][ (/\ BodyPass
         /\ userPath # <<>>
         /\ HasQuotedPath(line')
         /\ Len(Extracted(line')) > Len(userPath) + 1
         /\ ~TruePathPrefix(Extracted(line'), userPath))
        => stdout' = stdout ]_vars

\* C5: for an extracted path home + separator + suffix with a non-empty suffix,
\* the line printed is exactly suffix.
C5_PrintsSuffix ==
    [][ (/\ BodyPass
         /\ HasQuotedPath(line')
         /\ TruePathPrefix(Extracted(line'), userPath)
         /\ Len(Extracted(line')) > Len(userPath) + 1)
        => stdout' = Append(stdout, HomeRelative(Extracted(line'), userPath)) ]_vars

C5_Witness ==
    /\ userPath = Home
    /\ line = TwoTokenLine
    /\ consumed = <<TwoTokenLine>>
    /\ stdout = << <<"h">> >>

\* C6: a line with fewer than 3 quote-delimited fragments prints nothing, raises
\* nothing and leaves the loop reading: but for the line being taken off the
\* stream, the state is the one before it.
C6_MalformedLineSkipped ==
    [][ (BodyPass /\ ~HasQuotedPath(line'))
        => /\ stdout' = stdout
           /\ pc = "read" /\ pc' = "read"
           /\ straceCmd' = straceCmd
           /\ userPath' = userPath
           /\ \/ err' = "nil" /\ straceOut = line' \o straceOut'
              \/ err' = "ERR" ]_vars

C6_Witness ==
    /\ userPath = Home
    /\ Len(consumed) = 2
    /\ consumed[1] = <<"o", Quote, Sep, "h", Sep, "h", NL>>
    /\ consumed[2] = OpenatLine(Home \o <<Sep, "h">>)
    /\ stdout = << <<"h">> >>

\* C7: once the child is started, Wait is reached only after a read returned
\* io.EOF with nothing left unread, and traceCmd has returned only when that
\* has happened and the child is reaped.
C7_WaitOnlyAfterEOF ==
    /\ pc = "wait" => (err = "EOF" /\ straceOut = <<>> /\ straceCmd = "exited")
    /\ straceCmd = "reaped" => (err = "EOF" /\ straceOut = <<>> /\ pc = "done")
    /\ (pc = "done" /\ Launched) => straceCmd = "reaped"

C7_Witness ==
    pc = "done" /\ straceCmd = "reaped" /\ Len(consumed) = 2 /\ nerrs = 1

\* C8: a stream or process failure ends the invocation: after a failed Start no
\* read is made, and once a read has failed with an error other than io.EOF
\* traceCmd has terminated instead of going on reading.
C8_FailureIsFatal ==
    /\ straceCmd = "failed" => (consumed = <<>> /\ err = "nil")
    /\ err = "ERR" => pc \in {"panic", "done"}

\* C9: when traceCmd has returned, the last line the stream gave, newline or
\* not, was fed to the parser: if it holds a qualifying path, it is the last
\* line consumed and its home-relative path is the last line printed.
C9_LastLineProcessed ==
    (pc = "done" /\ Launched /\ Qualifying(line, userPath)) =>
        /\ consumed # <<>> /\ Last(consumed) = line
        /\ stdout # <<>> /\ Last(stdout) = HomeRelative(Extracted(line), userPath)

\* C10: every path line printed is a non-empty string (stated for a home
\* directory that is set).
C10_NoEmptyLine ==
    (Launched /\ userPath # <<>>) => \A i \in 1..Len(stdout) : stdout[i] # <<>>

====
